---- MODULE Spec2Model ----
(***************************************************************************)
(* Model of screen_time_tracker.py: the ScreenTimeTracker aggregates, the  *)
(* background sampling thread of ScreenTimeGUI.start_background_tracking   *)
(* and the calls the main (GUI) thread makes on the tracker.               *)
(*                                                                         *)
(* Python dicts keep insertion order, so a dict is a sequence of           *)
(* <<key, value>> pairs with distinct keys.  A value held in a mapping is  *)
(* a tagged record: Num(n) for a number, Str for a non-numeric JSON value  *)
(* that a hand-edited store can carry.  Times are whole seconds.           *)
(***************************************************************************)
EXTENDS Integers, Sequences, FiniteSets

\* ---------------------------------------------------------------- bounds
\* a behaviour makes at most MaxOps operations: ticks of the background loop,
\* calls of the main thread and launches of the program
MaxOps == 3
\* largest limit get_top_apps is called with
MaxLimit == 5

\* ------------------------------------------------------------- constants
\* "time_diff < 5" of update_usage
Threshold == 5

Apps == {"a", "b"}
Dates == {"d1", "d2"}
\* clock readings, in seconds since the launch: elapsed times below, at and above
\* the threshold, and negative ones when the wall clock is set back
Times == {0, 1, Threshold, Threshold + 1}
None == "None"

VARIABLES
  clock,            \* the wall clock time.time() reads
  app_usage,        \* self.app_usage: dict app -> value
  daily_usage,      \* self.daily_usage: dict date -> dict app -> value
  is_tracking,      \* self.is_tracking
  last_check_time,  \* self.last_check_time
  store,            \* the file screen_time_data.json
  tpc,              \* position of the background thread (track / update_usage)
  current_time,     \* update_usage local
  time_diff,        \* update_usage local
  os_result,        \* what the OS calls of get_active_window_info did in this tick
  app_name,         \* update_usage local
  ops,              \* operations started so far
  gpc,              \* position of the main thread inside a tracker call
  data,             \* save_data local
  gret,             \* how the main thread's last call ended
  stops,            \* stop_tracking calls that returned in a row, no thread step or
                    \* other call during or between them (2 stands for two or more)
  expected,         \* per app: loaded seconds plus every elapsed the guard accepted
  query             \* a call of a pure method on its own: method, argument, return value

vars == <<clock, app_usage, daily_usage, is_tracking, last_check_time, store, tpc,
          current_time, time_diff, os_result, app_name, ops, gpc, data,
          gret, stops, expected, query>>

\* ------------------------------------------------------------ Python values
Num(n) == [t |-> "num", v |-> n]
Str == [t |-> "str", v |-> 0]
JObj(pairs) == [t |-> "obj", v |-> pairs]
IsNum(x) == x.t = "num"
IsObj(x) == x.t = "obj"

\* ------------------------------------------------------------ ordered dicts
Keys(d) == {d[i][1] : i \in DOMAIN d}
Has(d, k) == k \in Keys(d)
Idx(d, k) == CHOOSE i \in DOMAIN d : d[i][1] = k
Lookup(d, k) == d[Idx(d, k)][2]
\* d[k] = v: an existing key keeps its place, a new key goes last
SetItem(d, k, v) ==
  IF Has(d, k) THEN [d EXCEPT ![Idx(d, k)] = <<k, v>>] ELSE Append(d, <<k, v>>)
\* defaultdict(int).__getitem__: a missing key is inserted with int() = 0
GetDefaultInt(d, k) == IF Has(d, k) THEN Lookup(d, k) ELSE Num(0)
\* defaultdict(lambda: defaultdict(int)).__getitem__ as seen in the mapping
TouchDate(dd, date) == IF Has(dd, date) THEN dd ELSE Append(dd, <<date, <<>>>>)
Inner(dd, date) == IF Has(dd, date) THEN Lookup(dd, date) ELSE <<>>

RECURSIVE SumNums(_)
SumNums(d) == IF d = <<>> THEN 0 ELSE d[1][2].v + SumNums(Tail(d))
AllNum(d) == \A i \in DOMAIN d : IsNum(d[i][2])
\* seconds recorded for app, 0 when the app has no entry
Secs(d, app) == IF Has(d, app) THEN Lookup(d, app).v ELSE 0
RECURSIVE DailySum(_, _)
DailySum(dd, app) ==
  IF dd = <<>> THEN 0 ELSE Secs(dd[1][2], app) + DailySum(Tail(dd), app)

\* ---------------------------------------------------------- the store file
\* The file is absent, holds text that is not JSON, or holds a JSON document.
Absent == [state |-> "absent", doc |-> JObj(<<>>)]
Garbage == [state |-> "garbage", doc |-> JObj(<<>>)]
Json(doc) == [state |-> "json", doc |-> doc]

\* dict(self.daily_usage) is a shallow copy: the dates present at the copy,
\* each still referring to the live inner dict
ShallowDates(dd) == [i \in DOMAIN dd |-> dd[i][1]]
ResolveDates(dates, dd) == [i \in DOMAIN dates |-> <<dates[i], Inner(dd, dates[i])>>]

\* mutant: daily_usage is left out of the document
JsonDumpNoDaily(app, dd) == JObj(<< <<"app_usage", JObj(app)>> >>)

\* json.dump(data, f, indent=2) of {'app_usage': ..., 'daily_usage': ...}
EncodeDaily(dd) == JObj([i \in DOMAIN dd |-> <<dd[i][1], JObj(dd[i][2])>>])
JsonDump(app, dd) ==
  JObj(<< <<"app_usage", JObj(app)>>, <<"daily_usage", EncodeDaily(dd)>> >>)

\* mutant: the file is opened with 'a', so a write lands after the old content
WriteStoreAppend(old, doc, outcome) ==
  CASE outcome = "ok" -> IF old.state = "absent" THEN [state |-> "json", doc |-> doc]
                         ELSE [state |-> "garbage", doc |-> JObj(<<>>)]
    [] outcome = "open_fails" -> old
    [] OTHER -> [state |-> "garbage", doc |-> JObj(<<>>)]

\* mutant: save_data catches the I/O error
WriteErrorSwallowed(outcome) == "none"

\* open(self.data_file, 'w') truncates the file, json.dump then writes it:
\* "ok", "open_fails" (the file is untouched) or "dump_fails" (the file is cut)
WriteOutcomes == {"ok", "open_fails", "dump_fails"}
WriteStore(old, doc, outcome) ==
  CASE outcome = "ok" -> Json(doc)
    [] outcome = "open_fails" -> old
    [] OTHER -> Garbage
WriteError(outcome) == IF outcome = "ok" THEN "none" ELSE "OSError"

\* data.get(key, {}) on the parsed document
JGet(obj, key) == IF Has(obj.v, key) THEN Lookup(obj.v, key) ELSE JObj(<<>>)

\* the for loop of load_data: dates are taken in file order, and the first
\* date whose value is no JSON object raises, which ends the loop
RECURSIVE LoadDates(_, _)
LoadDates(pairs, acc) ==
  IF pairs = <<>> THEN acc
  ELSE IF ~IsObj(pairs[1][2]) THEN acc
  ELSE LoadDates(Tail(pairs), SetItem(acc, pairs[1][1], pairs[1][2].v))

Maps(app, dd) == [app_usage |-> app, daily_usage |-> dd]

\* load_data: the mappings after the call, given the mappings before it
LoadData(app, dd, st) ==
  IF st.state = "absent" THEN Maps(app, dd)
  ELSE IF st.state = "garbage" THEN Maps(app, dd)
  ELSE IF ~IsObj(st.doc) THEN Maps(app, dd)
  ELSE IF ~IsObj(JGet(st.doc, "app_usage")) THEN Maps(app, dd)
  ELSE IF ~IsObj(JGet(st.doc, "daily_usage")) THEN Maps(JGet(st.doc, "app_usage").v, <<>>)
  ELSE Maps(JGet(st.doc, "app_usage").v, LoadDates(JGet(st.doc, "daily_usage").v, <<>>))

\* whether load_data's try block ran to its end
LoadSucceeds(st) ==
  /\ st.state = "json"
  /\ IsObj(st.doc)
  /\ IsObj(JGet(st.doc, "app_usage"))
  /\ IsObj(JGet(st.doc, "daily_usage"))
  /\ \A i \in DOMAIN JGet(st.doc, "daily_usage").v : IsObj(JGet(st.doc, "daily_usage").v[i][2])

\* ScreenTimeTracker.__init__: empty mappings, then load_data
Construct(st) == LoadData(<<>>, <<>>, st)

\* store contents a first launch can find
GoodDoc == JsonDump(<< <<"a", Num(2)>> >>, << <<"d1", << <<"a", Num(2)>> >> >> >>)
BadCellDoc == JsonDump(<< <<"a", Num(2)>> >>, << <<"d1", << <<"a", Str>> >> >> >>)
BadAppDoc == JsonDump(<< <<"a", Str>> >>, <<>>)
BadDateDoc ==
  JObj(<< <<"app_usage", JObj(<< <<"a", Num(2)>> >>)>>,
          <<"daily_usage", JObj(<< <<"d1", JObj(<< <<"a", Num(2)>> >>)>>, <<"d2", Num(7)>> >>)>> >>)
InitialStores ==
  {Absent, Garbage, Json(GoodDoc), Json(BadCellDoc), Json(BadAppDoc), Json(BadDateDoc),
   Json(Num(3))}

\* ------------------------------------------------------------ construction
OsOutcomes == [kind : {"app"}, app : Apps] \cup {[kind |-> "no_window", app |-> None],
                                                  [kind |-> "error", app |-> None]}
NoOs == [kind |-> "none", app |-> None]
NoData == [app_usage |-> <<>>, dates |-> <<>>]
NoCall == [op |-> "none", err |-> "none"]
Ret(op, err) == [op |-> op, err |-> err]
\* a call of a pure method: not made, made and not yet returned, returned
NoQuery == [fn |-> "none", arg |-> 0, err |-> "none", val |-> 0]
Pending(fn, arg) == [fn |-> fn, arg |-> arg, err |-> "pending", val |-> 0]
Returned(q, err, val) == [fn |-> q.fn, arg |-> q.arg, err |-> err, val |-> val]

\* seconds the loaded app_usage holds per app (0 for no entry or a non-number)
Loaded(app) == [a \in Apps |-> IF Has(app, a) /\ IsNum(GetDefaultInt(app, a)) THEN Secs(app, a) ELSE 0]

\* the state right after ScreenTimeGUI() built its tracker on store st
Launch(st) ==
  /\ app_usage' = Construct(st).app_usage
  /\ daily_usage' = Construct(st).daily_usage
  /\ is_tracking' = FALSE
  /\ last_check_time' = clock
  /\ tpc' = "sleep"
  /\ current_time' = 0
  /\ time_diff' = 0
  /\ os_result' = NoOs
  /\ app_name' = None
  /\ gpc' = "idle"
  /\ data' = NoData
  /\ gret' = NoCall
  /\ stops' = 0
  /\ expected' = Loaded(Construct(st).app_usage)

Init ==
  \E st \in InitialStores :
    /\ store = st
    /\ clock = 0
    /\ app_usage = Construct(st).app_usage
    /\ daily_usage = Construct(st).daily_usage
    /\ is_tracking = FALSE
    /\ last_check_time = 0
    /\ tpc = "sleep"
    /\ current_time = 0
    /\ time_diff = 0
    /\ os_result = NoOs
    /\ app_name = None
    /\ ops = 0
    /\ gpc = "idle"
    /\ data = NoData
    /\ gret = NoCall
    /\ stops = 0
    /\ expected = Loaded(Construct(st).app_usage)
    /\ query = NoQuery

\* ------------------------------------------------- the background thread
\* mutant: an exception of the OS calls leaves get_active_window_info
GetActiveWindowInfoRaises(os) ==
  IF os.kind = "app" THEN os.app ELSE IF os.kind = "error" THEN "Raised" ELSE None

\* get_active_window_info: the app name, or None when there is no foreground
\* window or any of the OS calls raised (the bare except swallows it)
GetActiveWindowInfo(os) == IF os.kind = "app" THEN os.app ELSE None

\* mutant: "time_diff <= 5"
AcceptInclusive(app, diff) == app \in Apps /\ diff <= Threshold

\* the guard of update_usage: "if app_name and time_diff < 5"
Accept(app, diff) == app \in Apps /\ diff < Threshold

\* mutant: "d[k] = diff"
AddSecondsAssign(d, k, diff) == SetItem(d, k, Num(diff))

\* d[k] += diff on a defaultdict(int)
CanAdd(d, k) == IsNum(GetDefaultInt(d, k))
AddSeconds(d, k, diff) == SetItem(d, k, Num(GetDefaultInt(d, k).v + diff))

\* a step of the background thread ends a run of stop_tracking calls; -1 marks
\* a stop_tracking call that is under way as one the thread stepped into
Disturbed == IF gpc \in {"stop_snap", "stop_write"} THEN -1 ELSE 0

\* track(): "if self.tracker.is_tracking: self.tracker.update_usage()"
TrackLoop ==
  /\ tpc = "sleep"
  /\ ops < MaxOps
  /\ is_tracking
  /\ ops' = ops + 1
  /\ tpc' = "enter"
  /\ stops' = Disturbed
  /\ UNCHANGED query
  /\ UNCHANGED <<clock, app_usage, daily_usage, is_tracking, last_check_time,
                 store, current_time, time_diff, os_result, app_name, gpc, data, gret, expected>>

\* mutant: update_usage without its first two lines
UpdateUsageEnterNoGuard ==
  /\ tpc = "enter"
  /\ tpc' = "read"
  /\ stops' = Disturbed
  /\ UNCHANGED query
  /\ UNCHANGED <<clock, app_usage, daily_usage, is_tracking, last_check_time,
                 store, current_time, time_diff, os_result, app_name, gpc,
                 data, gret, expected, ops>>

\* update_usage, "if not self.is_tracking: return"
UpdateUsageEnter ==
  /\ tpc = "enter"
  /\ tpc' = IF is_tracking THEN "read" ELSE "sleep"
  /\ stops' = Disturbed
  /\ UNCHANGED query
  /\ UNCHANGED <<clock, app_usage, daily_usage, is_tracking, last_check_time,
                 store, current_time, time_diff, os_result, app_name, gpc,
                 data, gret, expected, ops>>

\* what a tick is to be credited with: the OS reported an application and the
\* elapsed time is below the threshold
Credit(exp, os, elapsed) ==
  IF os.kind = "app" /\ elapsed < Threshold
    THEN [exp EXCEPT ![os.app] = @ + elapsed] ELSE exp

\* current_time, time_diff, the OS sample and the guard
UpdateUsageRead ==
  /\ tpc = "read"
  /\ \E os \in OsOutcomes :
       /\ current_time' = clock
       /\ time_diff' = clock - last_check_time
       /\ os_result' = os
       /\ app_name' = GetActiveWindowInfo(os)
       /\ expected' = Credit(expected, os, clock - last_check_time)
       /\ tpc' = IF GetActiveWindowInfo(os) \notin Apps \cup {None} THEN "dead"
                 ELSE IF Accept(GetActiveWindowInfo(os), clock - last_check_time) THEN "app"
                 ELSE "last"
  /\ stops' = Disturbed
  /\ UNCHANGED query
  /\ UNCHANGED <<clock, app_usage, daily_usage, is_tracking, last_check_time,
                 store, gpc, data, gret, ops>>

\* self.app_usage[app_name] += time_diff
UpdateUsageApp ==
  /\ tpc = "app"
  /\ IF CanAdd(app_usage, app_name)
       THEN /\ app_usage' = AddSeconds(app_usage, app_name, time_diff)
            /\ tpc' = "daily"
       ELSE /\ tpc' = "dead"
            /\ UNCHANGED app_usage
  /\ stops' = Disturbed
  /\ UNCHANGED query
  /\ UNCHANGED <<clock, daily_usage, is_tracking, last_check_time, store,
                 current_time, time_diff, os_result, app_name, gpc, data,
                 gret, expected, ops>>

\* today = datetime.now()...; self.daily_usage[today][app_name] += time_diff
UpdateUsageDaily ==
  /\ tpc = "daily"
  /\ \E today \in Dates :
       IF CanAdd(Inner(daily_usage, today), app_name)
         THEN /\ daily_usage' = SetItem(TouchDate(daily_usage, today), today,
                                  AddSeconds(Inner(daily_usage, today), app_name, time_diff))
              /\ tpc' = "last"
         ELSE /\ daily_usage' = TouchDate(daily_usage, today)
              /\ tpc' = "dead"
  /\ stops' = Disturbed
  /\ UNCHANGED query
  /\ UNCHANGED <<clock, app_usage, is_tracking, last_check_time, store,
                 current_time, time_diff, os_result, app_name, gpc, data,
                 gret, expected, ops>>

\* mutant: "self.last_check_time = current_time" sits inside the if
UpdateUsageLastInsideIf ==
  /\ tpc = "last"
  /\ last_check_time' = IF Accept(app_name, time_diff) THEN current_time ELSE last_check_time
  /\ tpc' = "sleep"
  /\ current_time' = 0
  /\ time_diff' = 0
  /\ os_result' = NoOs
  /\ app_name' = None
  /\ stops' = Disturbed
  /\ UNCHANGED query
  /\ UNCHANGED <<clock, app_usage, daily_usage, is_tracking, store, gpc, data,
                 gret, expected, ops>>

\* self.last_check_time = current_time, and update_usage returns: its locals die
UpdateUsageLast ==
  /\ tpc = "last"
  /\ last_check_time' = current_time
  /\ tpc' = "sleep"
  /\ current_time' = 0
  /\ time_diff' = 0
  /\ os_result' = NoOs
  /\ app_name' = None
  /\ stops' = Disturbed
  /\ UNCHANGED query
  /\ UNCHANGED <<clock, app_usage, daily_usage, is_tracking, store, gpc, data,
                 gret, expected, ops>>

\* ------------------------------------------------------- the main thread
\* start_tracking, "self.is_tracking = True"
StartTracking1 ==
  /\ gpc = "idle"
  /\ ops < MaxOps
  /\ ops' = ops + 1
  /\ is_tracking' = TRUE
  /\ gpc' = "start2"
  /\ stops' = 0
  /\ UNCHANGED query
  /\ UNCHANGED <<clock, app_usage, daily_usage, last_check_time, store, tpc,
                 current_time, time_diff, os_result, app_name, data,
                 gret, expected>>

\* mutant: start_tracking does not reset last_check_time
StartTracking2KeepsTime ==
  /\ gpc = "start2"
  /\ gpc' = "idle"
  /\ gret' = [op |-> "start_tracking", err |-> "none"]
  /\ stops' = 0
  /\ UNCHANGED query
  /\ UNCHANGED <<clock, app_usage, daily_usage, is_tracking, last_check_time,
                 store, tpc, current_time, time_diff, os_result, app_name, data, expected, ops>>

\* start_tracking, "self.last_check_time = time.time()"
StartTracking2 ==
  /\ gpc = "start2"
  /\ last_check_time' = clock
  /\ gpc' = "idle"
  /\ gret' = Ret("start_tracking", "none")
  /\ stops' = 0
  /\ UNCHANGED query
  /\ UNCHANGED <<clock, app_usage, daily_usage, is_tracking, store, tpc,
                 current_time, time_diff, os_result, app_name, data,
                 expected, ops>>

\* stop_tracking, "self.is_tracking = False"
StopTracking1 ==
  /\ gpc = "idle"
  /\ ops < MaxOps
  /\ ops' = ops + 1
  /\ is_tracking' = FALSE
  /\ gpc' = "stop_snap"
  /\ UNCHANGED query
  /\ UNCHANGED <<clock, app_usage, daily_usage, last_check_time, store, tpc,
                 current_time, time_diff, os_result, app_name, data,
                 gret, stops, expected>>

\* a direct call of save_data
CallSaveData ==
  /\ gpc = "idle"
  /\ ops < MaxOps
  /\ ops' = ops + 1
  /\ gpc' = "save_snap"
  /\ stops' = 0
  /\ UNCHANGED query
  /\ UNCHANGED <<clock, app_usage, daily_usage, is_tracking, last_check_time,
                 store, tpc, current_time, time_diff, os_result, app_name,
                 data, gret, expected>>

\* save_data, "data = {'app_usage': dict(...), 'daily_usage': dict(...)}"
SaveSnapshot ==
  /\ gpc \in {"stop_snap", "save_snap"}
  /\ data' = [app_usage |-> app_usage, dates |-> ShallowDates(daily_usage)]
  /\ gpc' = IF gpc = "stop_snap" THEN "stop_write" ELSE "save_write"
  /\ stops' = IF gpc = "stop_snap" THEN stops ELSE 0
  /\ UNCHANGED query
  /\ UNCHANGED <<clock, app_usage, daily_usage, is_tracking, last_check_time,
                 store, tpc, current_time, time_diff, os_result, app_name,
                 gret, expected, ops>>

\* save_data, "with open(self.data_file, 'w') as f: json.dump(data, f, indent=2)";
\* an I/O error is not caught here, nor in stop_tracking
SaveWrite ==
  /\ gpc \in {"stop_write", "save_write"}
  /\ \E outcome \in WriteOutcomes :
       /\ store' = WriteStore(store,
                     JsonDump(data.app_usage, ResolveDates(data.dates, daily_usage)), outcome)
       /\ gret' = Ret(IF gpc = "stop_write" THEN "stop_tracking" ELSE "save_data",
                      WriteError(outcome))
       /\ stops' = IF gpc = "stop_write" /\ outcome = "ok" /\ stops >= 0
                     THEN (IF stops = 0 THEN 1 ELSE 2) ELSE 0
  /\ gpc' = "idle"
  /\ data' = NoData
  /\ UNCHANGED query
  /\ UNCHANGED <<clock, app_usage, daily_usage, is_tracking, last_check_time,
                 tpc, current_time, time_diff, os_result, app_name, expected, ops>>

\* sorted(d.items(), key=lambda x: x[1]) raises TypeError when it has to compare
\* a number with a non-number
SortedRaises(d) == \E i, j \in DOMAIN d : IsNum(d[i][2]) /\ ~IsNum(d[j][2])
\* sum(d.values()) raises TypeError on a non-number
SumRaises(d) == ~AllNum(d)

\* a call of get_top_apps, get_daily_total or refresh_display
CallQuery ==
  /\ gpc = "idle"
  /\ ops < MaxOps
  /\ ops' = ops + 1
  /\ gpc' \in {"top", "total", "today"}
  /\ stops' = 0
  /\ UNCHANGED query
  /\ UNCHANGED <<clock, app_usage, daily_usage, is_tracking, last_check_time,
                 store, tpc, current_time, time_diff, os_result, app_name,
                 data, gret, expected>>

\* get_top_apps: reads self.app_usage
GetTopApps ==
  /\ gpc = "top"
  /\ gpc' = "idle"
  /\ gret' = Ret("get_top_apps", IF SortedRaises(app_usage) THEN "TypeError" ELSE "none")
  /\ stops' = 0
  /\ UNCHANGED query
  /\ UNCHANGED <<clock, app_usage, daily_usage, is_tracking, last_check_time,
                 store, tpc, current_time, time_diff, os_result, app_name,
                 data, expected, ops>>

\* get_daily_total(date): self.daily_usage[date] is a defaultdict lookup
GetDailyTotal ==
  /\ gpc = "total"
  /\ \E date \in Dates :
       /\ daily_usage' = TouchDate(daily_usage, date)
       /\ gret' = Ret("get_daily_total",
                      IF SumRaises(Inner(daily_usage, date)) THEN "TypeError" ELSE "none")
  /\ gpc' = "idle"
  /\ stops' = 0
  /\ UNCHANGED query
  /\ UNCHANGED <<clock, app_usage, is_tracking, last_check_time, store, tpc,
                 current_time, time_diff, os_result, app_name, data,
                 expected, ops>>

\* refresh_display -> update_today_display
UpdateTodayDisplay ==
  /\ gpc = "today"
  /\ \E today \in Dates :
       /\ daily_usage' = TouchDate(daily_usage, today)
       /\ IF SumRaises(Inner(daily_usage, today))
            THEN gpc' = "idle" /\ gret' = Ret("refresh_display", "TypeError")
            ELSE gpc' = "alltime" /\ gret' = gret
  /\ stops' = 0
  /\ UNCHANGED query
  /\ UNCHANGED <<clock, app_usage, is_tracking, last_check_time, store, tpc,
                 current_time, time_diff, os_result, app_name, data,
                 expected, ops>>

\* refresh_display -> update_alltime_display
UpdateAlltimeDisplay ==
  /\ gpc = "alltime"
  /\ IF SumRaises(app_usage)
       THEN gpc' = "idle" /\ gret' = Ret("refresh_display", "TypeError")
       ELSE gpc' = "stats" /\ gret' = gret
  /\ stops' = 0
  /\ UNCHANGED query
  /\ UNCHANGED <<clock, app_usage, daily_usage, is_tracking, last_check_time,
                 store, tpc, current_time, time_diff, os_result, app_name,
                 data, expected, ops>>

\* refresh_display -> update_stats_display
UpdateStatsDisplay ==
  /\ gpc = "stats"
  /\ gpc' = "idle"
  /\ gret' = Ret("refresh_display", IF SortedRaises(app_usage) THEN "TypeError" ELSE "none")
  /\ stops' = 0
  /\ UNCHANGED query
  /\ UNCHANGED <<clock, app_usage, daily_usage, is_tracking, last_check_time,
                 store, tpc, current_time, time_diff, os_result, app_name,
                 data, expected, ops>>

\* the process ends (the daemon thread with it) and the program is launched again
Restart ==
  /\ gpc = "idle"
  /\ tpc \in {"sleep", "dead"}
  /\ ops < MaxOps
  /\ ops' = ops + 1
  /\ Launch(store)
  /\ UNCHANGED query
  /\ UNCHANGED <<clock, store>>

\* the wall clock moves: time passes, or the clock is set (also backwards)
ClockMoves ==
  /\ clock' \in Times \ {clock}
  /\ UNCHANGED query
  /\ UNCHANGED <<app_usage, daily_usage, is_tracking, last_check_time, store,
                 tpc, current_time, time_diff, os_result, app_name, ops, gpc, data, gret, stops, expected>>

Next ==
  \/ TrackLoop
  \/ UpdateUsageEnter
  \/ UpdateUsageRead
  \/ UpdateUsageApp
  \/ UpdateUsageDaily
  \/ UpdateUsageLast
  \/ StartTracking1
  \/ StartTracking2
  \/ StopTracking1
  \/ CallSaveData
  \/ SaveSnapshot
  \/ SaveWrite
  \/ CallQuery
  \/ GetTopApps
  \/ GetDailyTotal
  \/ UpdateTodayDisplay
  \/ UpdateAlltimeDisplay
  \/ UpdateStatsDisplay
  \/ Restart
  \/ ClockMoves

Spec == Init /\ [][Next]_vars

\* ------------------------------------------------- the pure methods alone
\* mappings the pure methods are called on: up to four applications in any
\* insertion order, each with one of three totals (ties included)
QApps == {"A", "B", "C", "D"}
QSeconds == {50, 100, 300}
QMappings ==
  UNION {{m \in [1 .. n -> QApps \X {Num(v) : v \in QSeconds}] :
            \A i, j \in 1 .. n : m[i][1] = m[j][1] => i = j} : n \in 0 .. Cardinality(QApps)}

Limits == -1 .. MaxLimit

\* mutant: an item goes before the items of equal seconds
InsertDescBeforeEqual(sorted, item) ==
  LET k == Cardinality({i \in DOMAIN sorted : sorted[i][2].v > item[2].v})
  IN SubSeq(sorted, 1, k) \o <<item>> \o SubSeq(sorted, k + 1, Len(sorted))

\* sorted(items, key=lambda x: x[1], reverse=True) is a stable sort: an item
\* goes after every item of greater or equal seconds met before it
InsertDesc(sorted, item) ==
  LET k == Cardinality({i \in DOMAIN sorted : sorted[i][2].v >= item[2].v})
  IN SubSeq(sorted, 1, k) \o <<item>> \o SubSeq(sorted, k + 1, Len(sorted))
RECURSIVE SortedDesc(_)
SortedDesc(items) ==
  IF items = <<>> THEN <<>>
  ELSE InsertDesc(SortedDesc(SubSeq(items, 1, Len(items) - 1)), items[Len(items)])
\* the slice "sorted_apps[:limit]"; a negative limit counts from the end
Slice(items, limit) ==
  IF limit >= 0 THEN SubSeq(items, 1, IF limit < Len(items) THEN limit ELSE Len(items))
  ELSE SubSeq(items, 1, IF Len(items) + limit > 0 THEN Len(items) + limit ELSE 0)

\* what get_top_apps(limit) returns
GetTopAppsReturn(app, limit) ==
  IF SortedRaises(app) THEN [err |-> "TypeError", val |-> <<>>]
  ELSE [err |-> "none", val |-> Slice(SortedDesc(app), limit)]

\* get_top_apps called on its own
QGetTopApps ==
  /\ query.fn = "get_top_apps" /\ query.err = "pending"
  /\ query' = Returned(query, GetTopAppsReturn(app_usage, query.arg).err,
                       GetTopAppsReturn(app_usage, query.arg).val)
  /\ UNCHANGED <<clock, app_usage, daily_usage, is_tracking, last_check_time, store,
                 tpc, current_time, time_diff, os_result, app_name, ops, gpc, data,
                 gret, stops, expected>>

\* durations format_time is called with: hours below and above 10, 24 and 100,
\* minutes and seconds below and above 10
Durations ==
  {h * 3600 + m * 60 + sec : h \in {0, 1, 9, 10, 23, 24, 25, 99, 100},
                             m \in {0, 1, 2, 9, 10, 59}, sec \in {0, 1, 5, 9, 10, 59}}

\* a text is a sequence of characters
DigitChars == <<"0", "1", "2", "3", "4", "5", "6", "7", "8", "9">>
\* the decimal digits of a whole number n >= 0
RECURSIVE Decimal(_)
Decimal(n) ==
  IF n < 10 THEN <<DigitChars[n + 1]>>
  ELSE Decimal(n \div 10) \o <<DigitChars[(n % 10) + 1]>>

\* mutant: the hours wrap at 24
HoursOfDay(seconds) == (seconds \div 3600) % 24

\* "hours = int(seconds // 3600)", "minutes = int((seconds % 3600) // 60)",
\* "seconds = int(seconds % 60)"
Hours(seconds) == seconds \div 3600
Minutes(seconds) == (seconds % 3600) \div 60
Seconds(seconds) == seconds % 60
\* the format spec "02d": at least two characters, filled with zeros on the left
Format02d(n) == IF Len(Decimal(n)) < 2 THEN <<"0">> \o Decimal(n) ELSE Decimal(n)
\* f"{hours:02d}:{minutes:02d}:{seconds:02d}"
FormatTime(seconds) ==
  Format02d(Hours(seconds)) \o <<":">> \o Format02d(Minutes(seconds))
    \o <<":">> \o Format02d(Seconds(seconds))

\* format_time called on its own
QFormatTime ==
  /\ query.fn = "format_time" /\ query.err = "pending"
  /\ query' = Returned(query, "none", FormatTime(query.arg))
  /\ UNCHANGED <<clock, app_usage, daily_usage, is_tracking, last_check_time, store,
                 tpc, current_time, time_diff, os_result, app_name, ops, gpc, data,
                 gret, stops, expected>>

\* mutant: a plain dict, where a missing date is a KeyError
GetDailyTotalPlainDict(dd, date) ==
  IF ~Has(dd, date) THEN [err |-> "KeyError", val |-> 0]
  ELSE IF SumRaises(Inner(dd, date)) THEN [err |-> "TypeError", val |-> 0]
  ELSE [err |-> "none", val |-> SumNums(Inner(dd, date))]

\* what get_daily_total(date) returns: "sum(self.daily_usage[date].values())"
GetDailyTotalReturn(dd, date) ==
  IF SumRaises(Inner(dd, date)) THEN [err |-> "TypeError", val |-> 0]
  ELSE [err |-> "none", val |-> SumNums(Inner(dd, date))]

\* get_daily_total called on its own
QGetDailyTotal ==
  /\ query.fn = "get_daily_total" /\ query.err = "pending"
  /\ daily_usage' = TouchDate(daily_usage, query.arg)
  /\ query' = Returned(query, GetDailyTotalReturn(daily_usage, query.arg).err,
                       GetDailyTotalReturn(daily_usage, query.arg).val)
  /\ UNCHANGED <<clock, app_usage, is_tracking, last_check_time, store, tpc,
                 current_time, time_diff, os_result, app_name, ops, gpc, data,
                 gret, stops, expected>>

\* a tracker at rest whose mappings came from the store, and one call of a
\* pure method about to be made on it
InitQ ==
  /\ clock = 0
  /\ store = Absent
  /\ is_tracking = FALSE
  /\ last_check_time = 0
  /\ tpc = "sleep"
  /\ current_time = 0
  /\ time_diff = 0
  /\ os_result = NoOs
  /\ app_name = None
  /\ ops = 0
  /\ gpc = "idle"
  /\ data = NoData
  /\ gret = NoCall
  /\ stops = 0
  /\ expected = [a \in Apps |-> 0]
  /\ \/ \E m \in QMappings, date \in Dates, more \in BOOLEAN :
          /\ app_usage = m
          /\ daily_usage = IF more THEN << <<"d1", m>>, <<"d2", <<>>>> >> ELSE << <<"d1", m>> >>
          /\ query = Pending("get_daily_total", date)
     \/ \E m \in QMappings, limit \in Limits :
          /\ app_usage = m
          /\ daily_usage = <<>>
          /\ query = Pending("get_top_apps", limit)
     \/ \E seconds \in Durations :
          /\ app_usage = <<>>
          /\ daily_usage = <<>>
          /\ query = Pending("format_time", seconds)

NextQ ==
  \/ QGetDailyTotal
  \/ QGetTopApps
  \/ QFormatTime

SpecQ == InitQ /\ [][NextQ]_vars

\* ------------------------------------------------------------------ claims
ReadPcs == {"top", "total", "today", "alltime", "stats"}
SavePcs == {"stop_snap", "save_snap", "stop_write", "save_write"}
WritePcs == {"stop_write", "save_write"}

\* C1: a tick whose elapsed time (now - last_check_time) is 5 or more goes
\* straight to its last statement and no step of it changes app_usage or
\* daily_usage, whatever the OS reported; a tick with an application and an
\* elapsed time below 5 takes the attribution branch and adds the elapsed time.
C1_ThresholdRejects ==
  [][ /\ (tpc = "read" /\ tpc' # "read" /\ clock - last_check_time >= Threshold)
           => (tpc' = "last" /\ UNCHANGED <<app_usage, daily_usage>>)
      /\ (tpc = "last" /\ tpc' # "last" /\ time_diff >= Threshold)
           => (tpc' = "sleep" /\ UNCHANGED <<app_usage, daily_usage>>)
      /\ (tpc = "read" /\ tpc' # "read" /\ clock - last_check_time < Threshold
            /\ os_result'.kind = "app")
           => (tpc' = "app" /\ time_diff' = clock - last_check_time)
      /\ (tpc = "app" /\ tpc' = "daily")
           => Secs(app_usage', app_name) = Secs(app_usage, app_name) + time_diff
    ]_vars
\* a tick with an application in the foreground and elapsed exactly 5 is at its
\* last statement
C1_Witness ==
  tpc = "last" /\ is_tracking /\ time_diff = Threshold /\ os_result.kind = "app"

\* C2: a tick in which the OS reports no foreground window, or in which an OS
\* call fails, has app_name None, goes to its last statement and returns: it
\* changes neither mapping, whatever the elapsed time, and the thread survives.
C2_NoAppNoChange ==
  [][ /\ (tpc = "read" /\ tpc' # "read" /\ os_result'.kind # "app")
           => (tpc' = "last" /\ app_name' = None /\ UNCHANGED <<app_usage, daily_usage>>)
      /\ (tpc = "last" /\ tpc' # "last" /\ os_result.kind # "app")
           => (tpc' = "sleep" /\ UNCHANGED <<app_usage, daily_usage>>)
    ]_vars
\* a tick whose OS lookup failed, with an elapsed time the guard would accept
C2_Witness ==
  tpc = "last" /\ os_result.kind = "error" /\ time_diff \in 1 .. Threshold - 1

\* C3: whenever the thread is not between the guard and the first +=, every
\* numeric app_usage entry equals the seconds loaded for the app plus the sum
\* of the elapsed times of the ticks accepted for it (0 for an app with no entry).
C3_UsageIsSumOfAccepted ==
  tpc # "app" =>
    \A a \in Apps :
      IsNum(GetDefaultInt(app_usage, a)) => Secs(app_usage, a) = expected[a]
\* two accepted ticks for one app, from empty aggregates (a single accepted
\* elapsed is below 5)
C3_Witness ==
  /\ tpc = "sleep"
  /\ store = Absent
  /\ Has(app_usage, "a")
  /\ Secs(app_usage, "a") = Threshold
  /\ expected["a"] = Threshold

\* C4: no read and no save of the main thread runs while the background thread
\* stands between its two += statements with a non-zero elapsed time
\* (app_usage includes it, daily_usage does not yet).
C4_NoTornRead == ~(tpc = "daily" /\ time_diff # 0 /\ gpc \in ReadPcs \cup SavePcs)

\* C5: every step of the program other than a launch leaves, for every app,
\* the difference between app_usage[app] and the sum over the dates of
\* daily_usage[date][app] as it was, once the elapsed time of a tick standing
\* between its two += statements is counted as still owed to daily_usage: a
\* tick adds the same elapsed time to both mappings or changes neither.
Owed(a) == IF tpc = "daily" /\ app_name = a THEN time_diff ELSE 0
Gap(a) == Secs(app_usage, a) - DailySum(daily_usage, a) - Owed(a)
LaunchStep == ops' = ops + 1 /\ gpc' = "idle" /\ tpc' = "sleep"
C5_TickBothOrNeither ==
  [][ ~LaunchStep => \A a \in Apps : Gap(a)' = Gap(a) ]_vars

\* C6: at every reachable state, dumping the two mappings and loading the
\* document into a fresh tracker gives back both mappings, keys, order and
\* values; and a save that succeeds with nothing changed since its snapshot
\* leaves exactly the document of the current mappings in the store.
C6_RoundTrip ==
  /\ [](Construct(Json(JsonDump(app_usage, daily_usage))) = Maps(app_usage, daily_usage))
  /\ [][ (/\ gpc \in WritePcs /\ gpc' = "idle" /\ gret'.err = "none"
          /\ data.app_usage = app_usage /\ data.dates = ShallowDates(daily_usage))
         => (/\ store' = Json(JsonDump(app_usage, daily_usage))
             /\ LoadSucceeds(store')
             /\ Construct(store') = Maps(app_usage, daily_usage)) ]_vars
\* a tracker launched on a store that a call of stop_tracking wrote, holding an
\* application and a date without entries
C6_Witness ==
  /\ gret = NoCall /\ gpc = "idle" /\ ops = MaxOps
  /\ app_usage # <<>>
  /\ Has(daily_usage, "d2") /\ Inner(daily_usage, "d2") = <<>>
  /\ store = Json(JsonDump(app_usage, daily_usage))

\* C7: a tracker just constructed on a present store whose load failed holds
\* two empty mappings.
C7_LoadAllOrNothing ==
  (gret = NoCall /\ gpc = "idle" /\ store.state # "absent" /\ ~LoadSucceeds(store))
    => (app_usage = <<>> /\ daily_usage = <<>>)

\* C8: no step of save_data changes app_usage or daily_usage, and a write that
\* does not leave the document in the store ends the call, save_data or
\* stop_tracking, with the I/O error raised to the caller.
C8_SaveFailureReported ==
  [][ /\ (gpc \in SavePcs /\ gpc' # gpc) => UNCHANGED <<app_usage, daily_usage>>
      /\ (gpc \in WritePcs /\ gpc' = "idle"
            /\ store' # Json(JsonDump(data.app_usage, ResolveDates(data.dates, daily_usage))))
           => gret' = Ret(IF gpc = "stop_write" THEN "stop_tracking" ELSE "save_data", "OSError")
    ]_vars
\* stop_tracking has raised the I/O error of a cut write, the mappings still filled
C8_Witness ==
  /\ gret = Ret("stop_tracking", "OSError") /\ gpc = "idle"
  /\ store = Garbage
  /\ app_usage # <<>> /\ daily_usage # <<>>

\* C9: after a stop_tracking call that returned, with no thread step inside it,
\* is_tracking is false and the store holds the document of both mappings; a
\* further stop_tracking call that returns, nothing in between, changes none of
\* is_tracking, app_usage, daily_usage and the store at any of its steps.
C9_StopIdempotent ==
  /\ [](stops >= 1 => (~is_tracking /\ store = Json(JsonDump(app_usage, daily_usage))))
  /\ [][ (stops >= 1 /\ stops' >= 1)
         => UNCHANGED <<is_tracking, app_usage, daily_usage, store>> ]_vars
\* two stop_tracking calls in a row have returned, on filled mappings
C9_Witness == stops = 2 /\ gpc = "idle" /\ app_usage # <<>>

\* C10: the first statement of start_tracking sets is_tracking and nothing
\* else, the second sets last_check_time to the clock and nothing else, also
\* when tracking was already on.
C10_StartTracking ==
  /\ [](gpc = "start2" => is_tracking)
  /\ [][ /\ (gpc = "idle" /\ gpc' = "start2")
              => UNCHANGED <<app_usage, daily_usage, last_check_time, store>>
         /\ (gpc = "start2" /\ gpc' = "idle")
              => (/\ last_check_time' = clock
                  /\ gret' = Ret("start_tracking", "none")
                  /\ UNCHANGED <<is_tracking, app_usage, daily_usage, store>>) ]_vars
\* a second start_tracking in a row is under way: tracking was on when it was
\* called, and last_check_time is not the clock
C10_Witness ==
  /\ gpc = "start2" /\ gret = Ret("start_tracking", "none")
  /\ is_tracking /\ last_check_time # clock

\* C11: a call of update_usage that finds is_tracking false at its first line
\* returns there: app_usage, daily_usage, last_check_time and is_tracking are
\* as before, the clock was not read and the OS was not sampled.
C11_TickNoOpWhenStopped ==
  [][ (tpc = "enter" /\ tpc' # "enter" /\ ~is_tracking)
      => (/\ tpc' = "sleep"
          /\ os_result' = NoOs /\ app_name' = None
          /\ current_time' = current_time /\ time_diff' = time_diff
          /\ UNCHANGED <<app_usage, daily_usage, last_check_time, is_tracking, store>>) ]_vars
\* the loop saw is_tracking true and called update_usage, stop_tracking then
\* cleared the flag and returned: the tick is at its first line, tracking off
C11_Witness ==
  /\ tpc = "enter" /\ ~is_tracking
  /\ gpc = "idle" /\ gret.op = "stop_tracking"

\* C12: no step of get_top_apps, get_daily_total or refresh_display changes
\* app_usage or daily_usage: both have the same keys and values after the step
\* as before it, whatever the date asked for.
C12_QueriesArePureReads ==
  [][ (gpc \in ReadPcs /\ gpc' # gpc) => UNCHANGED <<app_usage, daily_usage>> ]_vars

\* C13: get_daily_total(date) returns the sum of the values recorded for the
\* date (counted here total by total), and for a date that has no entries,
\* present with an empty dict or absent, it returns 0 without raising.
C13_DailyTotal ==
  (query.fn = "get_daily_total" /\ query.err # "pending")
    => /\ query.err = "none"
       /\ query.val = 50 * Cardinality({i \in DOMAIN Inner(daily_usage, query.arg) :
                                          Inner(daily_usage, query.arg)[i][2] = Num(50)})
                     + 100 * Cardinality({i \in DOMAIN Inner(daily_usage, query.arg) :
                                          Inner(daily_usage, query.arg)[i][2] = Num(100)})
                     + 300 * Cardinality({i \in DOMAIN Inner(daily_usage, query.arg) :
                                          Inner(daily_usage, query.arg)[i][2] = Num(300)})
       /\ Inner(daily_usage, query.arg) = <<>> => query.val = 0
\* the total of a date without entries has been returned as 0, another date
\* holding three applications
C13_Witness ==
  /\ query.fn = "get_daily_total" /\ query.err = "none"
  /\ query.arg = "d2" /\ query.val = 0
  /\ Len(daily_usage) = 2 /\ Len(Inner(daily_usage, "d1")) = 3
  /\ Len(app_usage) = 3

\* C14: for a limit of 0 or more, get_top_apps(limit) returns min(limit,
\* number of apps) items of app_usage; each item comes before the next by
\* greater seconds or, at equal seconds, by earlier insertion in app_usage, and
\* before every app left out in the same way; on {A:100, B:300, C:50, D:300}
\* with limit 3 it returns [(B,300), (D,300), (A,100)].
ExampleUsage == << <<"A", Num(100)>>, <<"B", Num(300)>>, <<"C", Num(50)>>, <<"D", Num(300)>> >>
Before(x, y) ==
  \/ x[2].v > y[2].v
  \/ x[2].v = y[2].v /\ Idx(app_usage, x[1]) < Idx(app_usage, y[1])
C14_TopApps ==
  (query.fn = "get_top_apps" /\ query.err # "pending" /\ query.arg >= 0)
    => /\ query.err = "none"
       /\ Len(query.val) = (IF query.arg < Len(app_usage) THEN query.arg ELSE Len(app_usage))
       /\ \A i \in DOMAIN query.val : \E k \in DOMAIN app_usage : query.val[i] = app_usage[k]
       /\ \A i, j \in DOMAIN query.val : i < j => Before(query.val[i], query.val[j])
       /\ \A i \in DOMAIN query.val : \A k \in DOMAIN app_usage :
            (\A j \in DOMAIN query.val : query.val[j] # app_usage[k])
              => Before(query.val[i], app_usage[k])
       /\ (app_usage = ExampleUsage /\ query.arg = 3)
            => query.val = << <<"B", Num(300)>>, <<"D", Num(300)>>, <<"A", Num(100)>> >>
\* get_top_apps(3) has returned on the example mapping
C14_Witness ==
  /\ query.fn = "get_top_apps" /\ query.err = "none" /\ query.arg = 3
  /\ app_usage = ExampleUsage
  /\ Len(query.val) = 3

\* C15: no step within one run of the program (a launch reloads the
\* store) lowers a value of app_usage or a cell of daily_usage, also when the
\* clock a tick reads is behind last_check_time; so no value is below 0.
C15_NeverDecreases ==
  /\ [][ ~LaunchStep =>
           \A a \in Apps :
             /\ Secs(app_usage', a) >= Secs(app_usage, a)
             /\ \A date \in Dates :
                  Secs(Inner(daily_usage', date), a) >= Secs(Inner(daily_usage, date), a) ]_vars
  /\ [](\A a \in Apps : Secs(app_usage, a) >= 0)

\* C16: for a whole number of seconds s >= 0, format_time(s) is the text
\* H:MM:SS whose last two fields are two digits reading (s mod 3600) div 60 and
\* s mod 60 and whose first field reads s div 3600, in two digits or, from 100
\* hours on, in as many as the number has; 3725 gives "01:02:05" and 90000
\* gives "25:00:00".
RECURSIVE Reads(_)
Reads(digits) ==
  IF digits = <<>> THEN 0
  ELSE 10 * Reads(SubSeq(digits, 1, Len(digits) - 1))
         + (CHOOSE k \in 0 .. 9 : DigitChars[k + 1] = digits[Len(digits)])
AllDigits(text) == \A i \in DOMAIN text : \E k \in 1 .. 10 : DigitChars[k] = text[i]
FieldH(text) == SubSeq(text, 1, Len(text) - 6)
FieldM(text) == SubSeq(text, Len(text) - 4, Len(text) - 3)
FieldS(text) == SubSeq(text, Len(text) - 1, Len(text))
C16_FormatTime ==
  (query.fn = "format_time" /\ query.err # "pending")
    => /\ query.err = "none"
       /\ Len(query.val) >= 8
       /\ query.val[Len(query.val) - 5] = ":" /\ query.val[Len(query.val) - 2] = ":"
       /\ AllDigits(FieldH(query.val)) /\ AllDigits(FieldM(query.val))
       /\ AllDigits(FieldS(query.val))
       /\ Reads(FieldH(query.val)) = query.arg \div 3600
       /\ Reads(FieldM(query.val)) = (query.arg % 3600) \div 60
       /\ Reads(FieldS(query.val)) = query.arg % 60
       /\ (Len(FieldH(query.val)) = 2 \/ FieldH(query.val)[1] # "0")
       /\ query.arg = 3725 => query.val = <<"0", "1", ":", "0", "2", ":", "0", "5">>
       /\ query.arg = 90000 => query.val = <<"2", "5", ":", "0", "0", ":", "0", "0">>
\* format_time(90000) has returned: more than 24 hours
C16_Witness ==
  /\ query.fn = "format_time" /\ query.err = "none"
  /\ query.arg = 90000 /\ Len(query.val) = 8

\* C17: no tick ends with an exception, which would end track() and with it
\* the background thread: the thread is never dead.
C17_NoTickFatal == tpc # "dead"

\* C18: a tick that found tracking on keeps the clock value it read at its
\* start in current_time; when no application was reported or the elapsed
\* time is 5 or more it goes straight to its last statement; the last
\* statement sets last_check_time to current_time, whatever the application
\* and the elapsed time were; and a tick in the attribution branch reaches the
\* last statement too, unless a += met a value that is not a number (C17).
C18_LastCheckTimeAlwaysSet ==
  [][ /\ (tpc = "read" /\ tpc' # "read") => current_time' = clock
      /\ (tpc = "read" /\ tpc' # "read"
            /\ (os_result'.kind # "app" \/ clock - last_check_time >= Threshold))
           => tpc' = "last"
      /\ (tpc \in {"app", "daily"} /\ tpc' # tpc)
           => (/\ current_time' = current_time
               /\ tpc' \in {"daily", "last"}
                    \/ ~CanAdd(app_usage, app_name)
                    \/ \E date \in Dates : ~CanAdd(Inner(daily_usage, date), app_name))
      /\ (tpc = "last" /\ tpc' # "last")
           => (tpc' = "sleep" /\ last_check_time' = current_time)
    ]_vars
\* a tick without a foreground window and with an elapsed time of 5 or more
\* is at its last statement, last_check_time still the old one
C18_Witness ==
  /\ tpc = "last" /\ os_result.kind = "no_window"
  /\ time_diff >= Threshold /\ last_check_time # current_time

\* C19: when the last call that returned is stop_tracking, no tick takes a
\* non-zero elapsed time into the attribution branch while start_tracking has
\* set is_tracking and not yet reset last_check_time: an accepted elapsed time
\* is never measured from a last_check_time older than the start's reset.
C19_StoppedTimeNotAttributed ==
  [][ (/\ tpc = "read" /\ tpc' = "app"
       /\ gret.op = "stop_tracking"
       /\ clock # last_check_time)
      => gpc # "start2" ]_vars

\* C20: from the return of a stop_tracking call whose write succeeded until
\* the main thread's next call, the store holds for every app the seconds
\* app_usage holds and, summed over the dates, the seconds daily_usage holds.
C20_FlushOnStopComplete ==
  (gret = Ret("stop_tracking", "none") /\ gpc = "idle")
    => \A a \in Apps :
         /\ Secs(Construct(store).app_usage, a) = Secs(app_usage, a)
         /\ DailySum(Construct(store).daily_usage, a) = DailySum(daily_usage, a)
====
